---- MODULE Spec2Model ----
(***************************************************************************)
(* Anonymous voice notes backend (src/index.js).                           *)
(*                                                                         *)
(* The file holds two servers: the streaming variant (lines 1-201, multer  *)
(* memoryStorage + upload_stream) and the staged-file variant (lines       *)
(* 203-414, multer diskStorage + uploader.upload).  A process runs one of  *)
(* them; `variant` says which.  The admin handlers of both are the same    *)
(* text, so one action models each pair.                                   *)
(*                                                                         *)
(* Node runs one handler at a time until it returns or reaches an await /  *)
(* a callback registration; every such run-to-completion segment is one    *)
(* action.  The remote store (Cloudinary) and the clock are the            *)
(* environment.                                                            *)
(***************************************************************************)
EXTENDS Integers, Sequences, FiniteSets, TLC

----------------------------------------------------------------------------
(* Bounds of the model *)

\* uploads accepted over the life of the process
MaxNotes == 2
\* largest reading of the millisecond clock
MaxTime == 1
\* markDownloaded calls answered 200 per record
MaxCount == 2

\* userAgent.substring(0, 100)
TruncLen == 100

\* the requests in flight at one time
Reqs == {1, 2}

----------------------------------------------------------------------------
(* JavaScript values that reach the handlers *)

\* A string value is held as the first `len` characters of a text (a text
\* goes on for as long as needed): equal strings have equal texts and
\* lengths, and the empty string has the text "".
Undefined == [t |-> "undefined", text |-> "", len |-> 0]
Str(text, len) == [t |-> "string", text |-> IF len = 0 THEN "" ELSE text, len |-> len]
\* a repeated multipart field arrives as an array, which has no substring()
Arr == [t |-> "array", text |-> "", len |-> 2]

\* ToBoolean: undefined and "" are falsy, a non-empty string and any array truthy
Truthy(v) == \/ v.t = "array"
             \/ v.t = "string" /\ v.len > 0

Unknown == Str("unknown", 7)
Echo == Str("echo", 4)
\* two User-Agent headers, cut or padded to n characters
Mozilla(n) == Str("Mozilla/5.0 (X11; Linux x86_64) ...", n)
Curl(n) == Str("curl/8.5.0 ...", n)

\* the string passed on whole
SubstringWhole(s, n) == s

\* String.prototype.substring(0, n)
Substring0(s, n) == Str(s.text, IF s.len < n THEN s.len ELSE n)

DigitChars == <<"0", "1", "2", "3", "4", "5", "6", "7", "8", "9">>
IsDigit(c) == \E i \in 1..10 : DigitChars[i] = c
DigitVal(c) == (CHOOSE i \in 1..10 : DigitChars[i] = c) - 1
IsSpace(c) == c = " "

NaN == [nan |-> TRUE, n |-> 0]
Num(n) == [nan |-> FALSE, n |-> n]

RECURSIVE SkipSpace(_)
SkipSpace(s) == IF s # <<>> /\ IsSpace(Head(s)) THEN SkipSpace(Tail(s)) ELSE s

RECURSIVE DigitRun(_, _, _)
\* the longest run of decimal digits at the head of s, as <<any, value>>
DigitRun(s, any, acc) ==
    IF s # <<>> /\ IsDigit(Head(s))
    THEN DigitRun(Tail(s), TRUE, acc * 10 + DigitVal(Head(s)))
    ELSE <<any, acc>>

\* parseInt(string) without a radix, for strings that hold no "0x" prefix:
\* leading white space is skipped, one sign is taken, then the longest run of
\* digits; whatever follows is ignored, and no digit at all gives NaN
parseInt(str) ==
    LET s0 == SkipSpace(str)
        neg == s0 # <<>> /\ Head(s0) = "-"
        s1 == IF s0 # <<>> /\ Head(s0) \in {"-", "+"} THEN Tail(s0) ELSE s0
        run == DigitRun(s1, FALSE, 0)
    IN IF ~run[1] THEN NaN
       ELSE Num(IF neg THEN 0 - run[2] ELSE run[2])

\* n.id === noteId, where n.id is a number: NaN equals nothing
StrictEq(id, noteId) == ~noteId.nan /\ id = noteId.n

----------------------------------------------------------------------------
(* State *)

VARIABLES
    variant,        \* "stream" (lines 1-201) or "staged" (lines 203-414)
    alive,          \* FALSE once an exception escaped every handler
    now,            \* Date.now(), in milliseconds
    voiceNotes,     \* let voiceNotes = []
    noteIdCounter,  \* let noteIdCounter = 1
    remote,         \* public ids of the objects the remote store holds
    disk,           \* paths of the files in temp-uploads/
    req,            \* per request in flight: where its handler is, its locals
    res             \* the response the last step sent, NoRes if it sent none

vars == <<variant, alive, now, voiceNotes, noteIdCounter, remote, disk, req, res>>

NoBody == [file |-> FALSE, size |-> 0, effect |-> Undefined, userAgent |-> Undefined]

\* a request slot with no handler running
Idle == [pc |-> "idle", body |-> NoBody, publicId |-> <<>>, path |-> <<>>,
         noteId |-> NaN, noteIndex |-> -1, outcome |-> "none"]

\* the notes of a list response are the array voiceNotes itself
NoRes == [status |-> 0, error |-> "", id |-> 0, url |-> <<>>, count |-> 0]

\* res.status(st).json({error}) and res.json({success: true, ...})
Respond(st, error) == [NoRes EXCEPT !.status = st, !.error = error]

----------------------------------------------------------------------------
(* The remote object store, as the handlers see it *)

\* folder "anonymous-voices", public_id `anonymous-voice-${Date.now()}`
PublicId(t) == <<"anonymous-voices/anonymous-voice-", t>>

\* result.secure_url of a stored object
SecureUrl(pid) == <<"https://res.cloudinary.com/", pid>>

\* what the remote call can end as; a timeout reaches the caller as an error
Outcomes == {"ok", "err", "timeout"}

----------------------------------------------------------------------------
(* Requests *)

\* multipart bodies of POST /api/upload-voice: no file; an empty file with
\* the two text fields absent, or present and empty; a file with a userAgent
\* of exactly 100 and of 101 characters; a file with userAgent sent twice
Bodies ==
    { NoBody,
      [file |-> TRUE, size |-> 0, effect |-> Undefined, userAgent |-> Undefined],
      [file |-> TRUE, size |-> 0, effect |-> Str("", 0), userAgent |-> Str("", 0)],
      [file |-> TRUE, size |-> 5, effect |-> Echo, userAgent |-> Mozilla(TruncLen)],
      [file |-> TRUE, size |-> 5, effect |-> Echo, userAgent |-> Curl(TruncLen + 1)],
      [file |-> TRUE, size |-> 5, effect |-> Echo, userAgent |-> Arr] }

\* the bodies that differ in what the handler does with the registry
FewBodies ==
    { NoBody,
      [file |-> TRUE, size |-> 5, effect |-> Echo, userAgent |-> Curl(TruncLen + 1)],
      [file |-> TRUE, size |-> 5, effect |-> Echo, userAgent |-> Arr] }

\* req.params.id of the admin routes
PathIds ==
    { <<DigitChars[i + 1]>> : i \in 1..(MaxNotes + 1) }
        \cup { <<"1", "a">>, <<"a", "b", "c">>, <<" ", "2">>, <<"-", "1">> }

\* Math.random().toString(36).substring(7) of the temp file name
RandomTags == {"k3f9", "x0qz"}

----------------------------------------------------------------------------
(* Registry operations *)

\* the id taken from the length of the array instead of the counter
VoiceNoteIdFromLength(result, body, t) ==
    [ id |-> Len(voiceNotes) + 1,
      cloudinaryUrl |-> result.secure_url,
      publicId |-> result.public_id,
      effect |-> IF Truthy(body.effect) THEN body.effect ELSE Unknown,
      timestamp |-> t,
      userAgent |-> IF Truthy(body.userAgent)
                    THEN Substring0(body.userAgent, TruncLen)
                    ELSE Unknown,
      fileSize |-> body.size,
      downloaded |-> FALSE,
      downloadCount |-> 0 ]

\* lines 75-86 / 289-300, for a string or absent userAgent
VoiceNote(result, body, t) ==
    [ id |-> noteIdCounter,
      cloudinaryUrl |-> result.secure_url,
      publicId |-> result.public_id,
      effect |-> IF Truthy(body.effect) THEN body.effect ELSE Unknown,
      timestamp |-> t,
      userAgent |-> IF Truthy(body.userAgent)
                    THEN Substring0(body.userAgent, TruncLen)
                    ELSE Unknown,
      fileSize |-> body.size,
      downloaded |-> FALSE,
      downloadCount |-> 0 ]

\* userAgent.substring is not a function: the object literal throws after
\* `id: noteIdCounter++` has been evaluated
ThrowsOnUserAgent(body) == Truthy(body.userAgent) /\ body.userAgent.t # "string"

\* -1 for an absent id taken as an index from the end, as splice(-1, 1) does
FindIndexOrLast(notes, noteId) ==
    IF \E i \in 1..Len(notes) : StrictEq(notes[i].id, noteId)
    THEN (CHOOSE i \in 1..Len(notes) :
              /\ StrictEq(notes[i].id, noteId)
              /\ \A j \in 1..(i - 1) : ~StrictEq(notes[j].id, noteId)) - 1
    ELSE Len(notes) - 1

\* Array.prototype.findIndex((n) => n.id === noteId): 0-based, -1 when absent
FindIndex(notes, noteId) ==
    IF \E i \in 1..Len(notes) : StrictEq(notes[i].id, noteId)
    THEN (CHOOSE i \in 1..Len(notes) :
              /\ StrictEq(notes[i].id, noteId)
              /\ \A j \in 1..(i - 1) : ~StrictEq(notes[j].id, noteId)) - 1
    ELSE -1

\* Array.prototype.splice(index, 1) for index >= 0
Splice1(notes, index) ==
    IF index < Len(notes)
    THEN SubSeq(notes, 1, index) \o SubSeq(notes, index + 2, Len(notes))
    ELSE notes

RECURSIVE InsertDesc(_, _)
\* n placed behind every element that does not sort after it
InsertDesc(sorted, n) ==
    IF sorted = <<>> THEN <<n>>
    ELSE IF Head(sorted).timestamp >= n.timestamp
         THEN <<Head(sorted)>> \o InsertDesc(Tail(sorted), n)
         ELSE <<n>> \o sorted

RECURSIVE SortFrom(_, _)
SortFrom(sorted, rest) ==
    IF rest = <<>> THEN sorted
    ELSE SortFrom(InsertDesc(sorted, Head(rest)), Tail(rest))

\* the array returned as it is stored
SortNotesNot(notes) == notes

\* voiceNotes.sort((a, b) => new Date(b.timestamp) - new Date(a.timestamp)):
\* newest first, stable
SortNotes(notes) == SortFrom(<<>>, notes)

----------------------------------------------------------------------------
(* Initial state: a process that has just started, in front of an empty   *)
(* remote folder and an empty temp-uploads/                               *)

Init ==
    /\ variant \in {"stream", "staged"}
    /\ alive = TRUE
    /\ now = 0
    /\ voiceNotes = <<>>
    /\ noteIdCounter = 1
    /\ remote = {}
    /\ disk = {}
    /\ req = [r \in Reqs |-> Idle]
    /\ res = NoRes

\* a request takes the first slot that is free
Free(r) ==
    /\ alive
    /\ req[r].pc = "idle"
    /\ \A q \in Reqs : q < r => req[q].pc # "idle"

Uploading == {r \in Reqs : req[r].pc \in {"uploading", "uploaded"}}

\* the model stops taking uploads once MaxNotes ids are spoken for
MayUpload == (noteIdCounter - 1) + Cardinality(Uploading) < MaxNotes

Finish(r) == [req EXCEPT ![r] = Idle]

----------------------------------------------------------------------------
(* POST /api/upload-voice *)

\* lines 55-57 / 275-277
NoFile(r) ==
    /\ res' = Respond(400, "No audio file provided")
    /\ UNCHANGED <<variant, alive, now, voiceNotes, noteIdCounter, remote, disk, req>>

\* lines 53-67, 99-100: the handler up to the point where the buffer is piped
\* into upload_stream and the callback is left to run later
UploadVoiceStream(r, body) ==
    /\ variant = "stream"
    /\ Free(r)
    /\ IF ~body.file
       THEN NoFile(r)
       ELSE /\ MayUpload
            /\ req' = [req EXCEPT ![r] = [Idle EXCEPT !.pc = "uploading",
                                                      !.body = body,
                                                      !.publicId = PublicId(now)]]
            /\ res' = NoRes
            /\ UNCHANGED <<variant, alive, now, voiceNotes, noteIdCounter, remote, disk>>

\* lines 241-254, 273-286: multer has written the file to temp-uploads/ under
\* voice-<Date.now()>-<random>.wav; the handler runs up to the await
UploadVoiceStaged(r, body, rnd) ==
    /\ variant = "staged"
    /\ Free(r)
    /\ IF ~body.file
       THEN NoFile(r)
       ELSE /\ MayUpload
            /\ disk' = disk \cup {<<now, rnd>>}
            /\ req' = [req EXCEPT ![r] = [Idle EXCEPT !.pc = "uploading",
                                                      !.body = body,
                                                      !.path = <<now, rnd>>,
                                                      !.publicId = PublicId(now)]]
            /\ res' = NoRes
            /\ UNCHANGED <<variant, alive, now, voiceNotes, noteIdCounter, remote>>

\* the remote store's side of upload / upload_stream: the object exists under
\* the public id once the store has accepted it (a second upload under the
\* same public id replaces the first); an error or a timeout stores nothing
RemoteUpload(r, o) ==
    /\ alive
    /\ req[r].pc = "uploading"
    /\ remote' = IF o = "ok" THEN remote \cup {req[r].publicId} ELSE remote
    /\ req' = [req EXCEPT ![r].pc = "uploaded", ![r].outcome = o]
    /\ res' = NoRes
    /\ UNCHANGED <<variant, alive, now, voiceNotes, noteIdCounter, disk>>

\* the result the store hands back on success
UploadResult(r) == [public_id |-> req[r].publicId, secure_url |-> SecureUrl(req[r].publicId)]

\* the error branch falling through to the record creation
StreamErrorFallsThrough(r) ==
    /\ noteIdCounter' = noteIdCounter + 1
    /\ voiceNotes' = Append(voiceNotes, VoiceNote(UploadResult(r), req[r].body, now))
    /\ res' = Respond(500, "Upload failed")
    /\ req' = Finish(r)
    /\ UNCHANGED <<variant, alive, now, remote, disk>>

\* lines 69-72
StreamError(r) ==
    /\ res' = Respond(500, "Upload failed")
    /\ req' = Finish(r)
    /\ UNCHANGED <<variant, alive, now, voiceNotes, noteIdCounter, remote, disk>>

\* lines 75-81 with a userAgent that has no substring(): the TypeError leaves
\* the callback, which nothing wraps, after noteIdCounter++; the process ends
\* on the uncaught exception and the request is never answered
StreamThrow(r) ==
    /\ noteIdCounter' = noteIdCounter + 1
    /\ alive' = FALSE
    /\ req' = Finish(r)
    /\ res' = NoRes
    /\ UNCHANGED <<variant, now, voiceNotes, remote, disk>>

\* lines 74-95
StreamSuccess(r) ==
    LET result == UploadResult(r)
        voiceNote == VoiceNote(result, req[r].body, now)
    IN /\ noteIdCounter' = noteIdCounter + 1
       /\ voiceNotes' = Append(voiceNotes, voiceNote)
       /\ res' = [Respond(200, "") EXCEPT !.id = voiceNote.id,
                                                   !.url = result.secure_url]
       /\ req' = Finish(r)
       /\ UNCHANGED <<variant, alive, now, remote, disk>>

\* lines 68-96: the upload_stream callback
UploadStreamCallback(r) ==
    /\ variant = "stream"
    /\ alive
    /\ req[r].pc = "uploaded"
    /\ IF req[r].outcome # "ok" THEN StreamError(r)
       ELSE IF ThrowsOnUserAgent(req[r].body) THEN StreamThrow(r)
       ELSE StreamSuccess(r)

\* the catch block without its clean-up
StagedCatchKeepsFile(r) ==
    /\ disk' = disk
    /\ res' = Respond(500, "Upload failed")
    /\ req' = Finish(r)

\* lines 313-324: the catch block; the temp file is unlinked if it is there
StagedCatch(r) ==
    /\ disk' = disk \ {req[r].path}
    /\ res' = Respond(500, "Upload failed")
    /\ req' = Finish(r)

\* lines 282-286 rejecting
StagedError(r) ==
    /\ StagedCatch(r)
    /\ UNCHANGED <<variant, alive, now, voiceNotes, noteIdCounter, remote>>

\* lines 289-295 throwing on userAgent.substring, then the catch block
StagedThrow(r) ==
    /\ noteIdCounter' = noteIdCounter + 1
    /\ StagedCatch(r)
    /\ UNCHANGED <<variant, alive, now, voiceNotes, remote>>

\* lines 288-312; fs.unlinkSync throws ENOENT when the file is gone, after
\* the record has been pushed, and the catch block answers
StagedSuccess(r) ==
    LET result == UploadResult(r)
        voiceNote == VoiceNote(result, req[r].body, now)
    IN /\ noteIdCounter' = noteIdCounter + 1
       /\ voiceNotes' = Append(voiceNotes, voiceNote)
       /\ IF req[r].path \in disk
          THEN /\ disk' = disk \ {req[r].path}
               /\ res' = [Respond(200, "") EXCEPT !.id = voiceNote.id,
                                                           !.url = result.secure_url]
               /\ req' = Finish(r)
          ELSE StagedCatch(r)
       /\ UNCHANGED <<variant, alive, now, remote>>

\* lines 282-325: the handler from the await on
UploadStagedResume(r) ==
    /\ variant = "staged"
    /\ alive
    /\ req[r].pc = "uploaded"
    /\ IF req[r].outcome # "ok" THEN StagedError(r)
       ELSE IF ThrowsOnUserAgent(req[r].body) THEN StagedThrow(r)
       ELSE StagedSuccess(r)

----------------------------------------------------------------------------
(* GET /api/admin/voice-notes, lines 108-123 / 329-345: the array is      *)
(* sorted in place and serialised into the response                      *)

ListNotes(r) ==
    LET sortedNotes == SortNotes(voiceNotes)
    IN /\ Free(r)
       /\ voiceNotes' = sortedNotes
       /\ res' = [Respond(200, "") EXCEPT !.count = Len(sortedNotes)]
       /\ UNCHANGED <<variant, alive, now, noteIdCounter, remote, disk, req>>

----------------------------------------------------------------------------
(* POST /api/admin/voice-notes/:id/downloaded, lines 126-143 / 348-365 *)

NotFound ==
    /\ res' = Respond(404, "Voice note not found")
    /\ UNCHANGED <<variant, alive, now, voiceNotes, noteIdCounter, remote, disk, req>>

\* the flag toggled instead of set
MarkToggles(note) ==
    [note EXCEPT !.downloaded = ~note.downloaded, !.downloadCount = note.downloadCount + 1]

\* the record stamped with the time of the call as well
MarkStamps(note) ==
    [note EXCEPT !.downloaded = TRUE, !.downloadCount = note.downloadCount + 1,
                 !.timestamp = now]

\* the flag set and the count left alone
MarkFlagOnly(note) == [note EXCEPT !.downloaded = TRUE]

\* the count set instead of incremented
MarkOnce(note) == [note EXCEPT !.downloaded = TRUE, !.downloadCount = 1]

\* lines 135-136
Mark(note) == [note EXCEPT !.downloaded = TRUE, !.downloadCount = note.downloadCount + 1]

MarkDownloaded(r, param) ==
    LET noteId == parseInt(param)
        index == FindIndex(voiceNotes, noteId)
    IN /\ Free(r)
       /\ IF index = -1
          THEN NotFound
          ELSE /\ voiceNotes[index + 1].downloadCount < MaxCount
               /\ voiceNotes' = [voiceNotes EXCEPT ![index + 1] = Mark(@)]
               /\ res' = Respond(200, "")
               /\ UNCHANGED <<variant, alive, now, noteIdCounter, remote, disk, req>>

----------------------------------------------------------------------------
(* DELETE /api/admin/voice-notes/:id, lines 146-170 / 368-392 *)

\* lines 148-160: up to the await
DeleteNote(r, param) ==
    LET noteId == parseInt(param)
        noteIndex == FindIndex(voiceNotes, noteId)
    IN /\ Free(r)
       /\ IF noteIndex = -1
          THEN NotFound
          ELSE /\ req' = [req EXCEPT ![r] = [Idle EXCEPT
                              !.pc = "destroying",
                              !.noteId = noteId,
                              !.noteIndex = noteIndex,
                              !.publicId = voiceNotes[noteIndex + 1].publicId]]
               /\ res' = NoRes
               /\ UNCHANGED <<variant, alive, now, voiceNotes, noteIdCounter, remote, disk>>

\* the remote store's side of destroy: the object is gone once the store has
\* accepted the call (destroying an absent object is accepted too); an error
\* or a timeout removes nothing
RemoteDestroy(r, o) ==
    /\ alive
    /\ req[r].pc = "destroying"
    /\ remote' = IF o = "ok" THEN remote \ {req[r].publicId} ELSE remote
    /\ req' = [req EXCEPT ![r].pc = "destroyed", ![r].outcome = o]
    /\ res' = NoRes
    /\ UNCHANGED <<variant, alive, now, voiceNotes, noteIdCounter, disk>>

\* lines 162-165
DeleteSuccess(r) ==
    /\ voiceNotes' = Splice1(voiceNotes, req[r].noteIndex)
    /\ res' = Respond(200, "")
    /\ req' = Finish(r)
    /\ UNCHANGED <<variant, alive, now, noteIdCounter, remote, disk>>

\* lines 166-169
DeleteError(r) ==
    /\ res' = Respond(500, "Failed to delete voice note")
    /\ req' = Finish(r)
    /\ UNCHANGED <<variant, alive, now, voiceNotes, noteIdCounter, remote, disk>>

\* lines 158-169: the handler from the await on
DeleteResume(r) ==
    /\ alive
    /\ req[r].pc = "destroyed"
    /\ IF req[r].outcome = "ok" THEN DeleteSuccess(r) ELSE DeleteError(r)

----------------------------------------------------------------------------
(* The clock *)

Tick ==
    /\ alive
    /\ now < MaxTime
    /\ now' = now + 1
    /\ res' = NoRes
    /\ UNCHANGED <<variant, alive, voiceNotes, noteIdCounter, remote, disk, req>>

----------------------------------------------------------------------------

Step(R, B, O) ==
    \/ \E r \in R, body \in B : UploadVoiceStream(r, body)
    \/ \E r \in R, body \in B, rnd \in RandomTags : UploadVoiceStaged(r, body, rnd)
    \/ \E r \in R, o \in O : RemoteUpload(r, o)
    \/ \E r \in R : UploadStreamCallback(r)
    \/ \E r \in R : UploadStagedResume(r)
    \/ \E r \in R : ListNotes(r)
    \/ \E r \in R, param \in PathIds : MarkDownloaded(r, param)
    \/ \E r \in R, param \in PathIds : DeleteNote(r, param)
    \/ \E r \in R, o \in O : RemoteDestroy(r, o)
    \/ \E r \in R : DeleteResume(r)
    \/ Tick

\* requests overlap: a handler that waits for the remote store lets the
\* handlers of other requests run
Next == Step(Reqs, FewBodies, Outcomes)

Spec == Init /\ [][Next]_vars

\* one request at a time
NextSeq == Step({1}, FewBodies, Outcomes)

SpecSeq == Init /\ [][NextSeq]_vars

\* uploads only, overlapping, with every body
Upload(R, B, O) ==
    \/ \E r \in R, body \in B : UploadVoiceStream(r, body)
    \/ \E r \in R, body \in B, rnd \in RandomTags : UploadVoiceStaged(r, body, rnd)
    \/ \E r \in R, o \in O : RemoteUpload(r, o)
    \/ \E r \in R : UploadStreamCallback(r)
    \/ \E r \in R : UploadStagedResume(r)
    \/ Tick

NextUpload == Upload(Reqs, Bodies, Outcomes)

SpecUpload == Init /\ [][NextUpload]_vars

\* uploads only, where the remote store answers every upload it was given
\* and the event loop runs every callback and continuation that is ready
SpecUploadLive ==
    /\ SpecUpload
    /\ \A r \in Reqs :
          /\ WF_vars(\E o \in Outcomes : RemoteUpload(r, o))
          /\ WF_vars(UploadStreamCallback(r))
          /\ WF_vars(UploadStagedResume(r))

----------------------------------------------------------------------------
(* Properties *)

Ids(notes) == {notes[i].id : i \in 1..Len(notes)}

NoteOf(notes, id) == notes[CHOOSE i \in 1..Len(notes) : notes[i].id = id]

\* request r's handler ends in this step
Ends(r, pc) == req[r].pc = pc /\ req'[r].pc = "idle"

\* C1: every record in the registry has a publicId whose object exists in the
\* remote store.  The one window the design itself leaves open is granted:
\* a deleteNote of that record whose remote deletion has been confirmed and
\* whose removal from the array is the next thing its handler does.
NoOrphanRecords ==
    \A i \in 1..Len(voiceNotes) :
        \/ voiceNotes[i].publicId \in remote
        \/ \E r \in Reqs : /\ req[r].pc = "destroyed"
                           /\ req[r].outcome = "ok"
                           /\ StrictEq(voiceNotes[i].id, req[r].noteId)

\* C2: the registry gains a record, and the counter moves, only in the step
\* in which an upload that the remote store confirmed is completed; the step
\* that completes an upload the store failed answers 500 "Upload failed" and
\* leaves the records and the counter as they were.
InsertOnlyAfterConfirmation ==
    [][ /\ (Ids(voiceNotes') \ Ids(voiceNotes) # {} \/ noteIdCounter' # noteIdCounter)
            => \E r \in Reqs : Ends(r, "uploaded") /\ req[r].outcome = "ok"
        /\ \A r \in Reqs :
              (Ends(r, "uploaded") /\ req[r].outcome # "ok")
                  => /\ res'.status = 500
                     /\ res'.error = "Upload failed"
                     /\ voiceNotes' = voiceNotes
                     /\ noteIdCounter' = noteIdCounter ]_vars

\* a failed upload has been answered, in the streaming variant where nothing
\* else answers 500, next to a record of an earlier upload
FailedUploadAnswered ==
    /\ variant = "stream"
    /\ res.status = 500
    /\ res.error = "Upload failed"
    /\ Len(voiceNotes) = 1
    /\ noteIdCounter = 2

\* C3: the step that completes a deleteNote removes the record with the
\* requested id if the remote deletion succeeded, and otherwise answers 500
\* and leaves the array as it was.
DeleteRemovesIffRemoteDeleted ==
    [][ \A r \in Reqs :
          Ends(r, "destroyed")
              => IF req[r].outcome = "ok"
                 THEN req[r].noteId.n \notin Ids(voiceNotes')
                 ELSE res'.status = 500 /\ voiceNotes' = voiceNotes ]_vars

\* C4: the counter never decreases; a record that enters the registry carries
\* the counter's value as its id, is the only one to enter in that step and
\* leaves the counter one higher; so every id in the registry is below the
\* counter and no two records share an id; a successful upload returns the id
\* of the record it inserted.
IdsStrictlyIncreasing ==
    /\ [](\A i \in 1..Len(voiceNotes) :
             /\ voiceNotes[i].id < noteIdCounter
             /\ \A j \in 1..Len(voiceNotes) : voiceNotes[j].id = voiceNotes[i].id => j = i)
    /\ [][ /\ noteIdCounter' >= noteIdCounter
           /\ \A id \in Ids(voiceNotes') \ Ids(voiceNotes) :
                 /\ id = noteIdCounter
                 /\ noteIdCounter' = noteIdCounter + 1
                 /\ voiceNotes' = Append(voiceNotes, NoteOf(voiceNotes', id))
                 /\ res'.status = 200 => res'.id = id ]_vars

\* id 2 has been handed out after the record with id 1 was deleted (in the
\* streaming variant the counter moves with insertions only)
IdAssignedAfterDelete ==
    /\ variant = "stream"
    /\ Len(voiceNotes) = 1
    /\ voiceNotes[1].id = 2
    /\ noteIdCounter = 3
    /\ res.status = 200
    /\ res.id = 2

\* what parseInt makes of each path parameter
Parsed == [param \in PathIds |-> parseInt(param)]

\* C5: a markDownloaded call on an existing id answers 200, sets downloaded
\* and raises downloadCount by exactly 1; no other step changes either field
\* of a record that stays, and a record enters with downloaded false and
\* downloadCount 0: after N calls the record has downloaded true and
\* downloadCount N.
MarkCountsCalls ==
    [][ /\ \A id \in Ids(voiceNotes) \cap Ids(voiceNotes') :
              LET old == NoteOf(voiceNotes, id)
                  new == NoteOf(voiceNotes', id)
              IN IF \E param \in PathIds :
                        /\ StrictEq(id, Parsed[param])
                        /\ \E r \in Reqs : MarkDownloaded(r, param)
                 THEN /\ new.downloaded
                      /\ new.downloadCount = old.downloadCount + 1
                      /\ res'.status = 200
                 ELSE /\ new.downloaded = old.downloaded
                      /\ new.downloadCount = old.downloadCount
        /\ \A id \in Ids(voiceNotes') \ Ids(voiceNotes) :
              /\ ~NoteOf(voiceNotes', id).downloaded
              /\ NoteOf(voiceNotes', id).downloadCount = 0 ]_vars

\* a record has just been marked for the second time
MarkedTwice ==
    /\ res.status = 200
    /\ \E i \in 1..Len(voiceNotes) :
          voiceNotes[i].downloaded /\ voiceNotes[i].downloadCount = 2

\* the id a path parameter names is in the registry
Known(param) == \E i \in 1..Len(voiceNotes) : StrictEq(voiceNotes[i].id, Parsed[param])

\* C6: markDownloaded and deleteNote on an id that is not in the registry
\* answer 404 and change neither the records nor the counter; deleteNote
\* starts no remote deletion (no request is left waiting, the remote store is
\* as it was).
UnknownIdIsNotFound ==
    [][ \/ /\ res'.status = 404
           /\ voiceNotes' = voiceNotes
           /\ noteIdCounter' = noteIdCounter
           /\ remote' = remote
           /\ req' = req
        \/ \A param \in PathIds :
              Known(param)
                  \/ \A r \in Reqs : ~(MarkDownloaded(r, param) \/ DeleteNote(r, param)) ]_vars

\* 404 has been answered while the registry held two records
NotFoundAnswered ==
    /\ res.status = 404
    /\ Len(voiceNotes) = 2

SortedNewestFirst(notes) ==
    \A i, j \in 1..Len(notes) : i < j => notes[i].timestamp >= notes[j].timestamp

SameRecords(a, b) ==
    /\ Len(a) = Len(b)
    /\ \A i \in 1..Len(a) :
          Cardinality({j \in 1..Len(a) : a[j] = a[i]})
              = Cardinality({j \in 1..Len(b) : b[j] = a[i]})

\* C7: listNotes answers with exactly the records of the registry, each
\* once, newest first, and with their number as count (the notes of the
\* response are the array as the step leaves it).
ListSortedNewestFirst ==
    [][ \A r \in Reqs :
          ListNotes(r)
              => /\ res'.status = 200
                 /\ res'.count = Len(voiceNotes')
                 /\ SameRecords(voiceNotes, voiceNotes')
                 /\ SortedNewestFirst(voiceNotes') ]_vars

\* a list has been answered that put the later record first
ListedNewestFirst ==
    /\ res.status = 200
    /\ res.count = 2
    /\ Len(voiceNotes) = 2
    /\ voiceNotes[1].timestamp > voiceNotes[2].timestamp
    /\ voiceNotes[1].id > voiceNotes[2].id

\* C8: an upload answered 200 has appended exactly one record and returns
\* its id and url; the record carries the url and public id the store
\* returned, the effect sent ("unknown" when none was), downloaded false and
\* downloadCount 0; the first record of a process has id 1.
SubmissionInsertsRecord ==
    [][ \A r \in Reqs :
          (Ends(r, "uploaded") /\ res'.status = 200)
              => /\ Len(voiceNotes') = Len(voiceNotes) + 1
                 /\ SubSeq(voiceNotes', 1, Len(voiceNotes)) = voiceNotes
                 /\ LET note == voiceNotes'[Len(voiceNotes')]
                        effect == req[r].body.effect
                    IN /\ res'.id = note.id
                       /\ res'.url = note.cloudinaryUrl
                       /\ note.cloudinaryUrl = SecureUrl(req[r].publicId)
                       /\ note.publicId = req[r].publicId
                       /\ note.effect = IF effect.t = "string" /\ effect.len > 0
                                        THEN effect ELSE Unknown
                       /\ ~note.downloaded
                       /\ note.downloadCount = 0
                       /\ voiceNotes = <<>> => note.id = 1 ]_vars

\* the userAgent a record is to hold for a submitted string: cut to 100
\* characters, otherwise as sent
AsClaimed(userAgent) ==
    IF userAgent.len > TruncLen THEN Str(userAgent.text, TruncLen) ELSE userAgent

\* C9 as stated: a submitted userAgent string of more than 100 characters is
\* stored as its first 100 characters, one of at most 100 unchanged.
HintStoredAsClaimed ==
    [][ \A r \in Reqs :
          (/\ Ends(r, "uploaded")
           /\ Len(voiceNotes') = Len(voiceNotes) + 1
           /\ req[r].body.userAgent.t = "string")
              => voiceNotes'[Len(voiceNotes')].userAgent = AsClaimed(req[r].body.userAgent) ]_vars

\* C9 as amended: a submitted userAgent string of more than 100 characters is
\* stored as its first 100 characters, a non-empty one of at most 100
\* unchanged, an empty one as "unknown"; no stored userAgent is longer than
\* 100 characters.
HintTruncated ==
    /\ [](\A i \in 1..Len(voiceNotes) : voiceNotes[i].userAgent.len <= TruncLen)
    /\ [][ \A r \in Reqs :
             (/\ Ends(r, "uploaded")
              /\ Len(voiceNotes') = Len(voiceNotes) + 1
              /\ req[r].body.userAgent.t = "string")
                 => voiceNotes'[Len(voiceNotes')].userAgent
                        = IF req[r].body.userAgent.len = 0
                          THEN Unknown
                          ELSE AsClaimed(req[r].body.userAgent) ]_vars

\* the 101-character userAgent has been stored, cut to 100
HintCut ==
    /\ res.status = 200
    /\ \E i \in 1..Len(voiceNotes) : voiceNotes[i].userAgent = Curl(TruncLen)

\* C10: in the staged-file variant the step in which the upload handler
\* answers leaves no file under the request's temp path, and temp-uploads/
\* is empty whenever no upload is in flight.
TempFileRemoved ==
    /\ []((variant = "staged" /\ Uploading = {}) => disk = {})
    /\ [][ \A r \in Reqs :
             (variant = "staged" /\ Ends(r, "uploaded"))
                 => res'.status # 0 /\ req[r].path \notin disk' ]_vars

\* the catch block has answered for a handler that threw after the remote
\* store had accepted the upload, and the temp file is gone
CleanedAfterError ==
    /\ variant = "staged"
    /\ res.status = 500
    /\ voiceNotes = <<>>
    /\ noteIdCounter = 2
    /\ Uploading = {}
    /\ disk = {}

Records(notes) == {notes[i] : i \in 1..Len(notes)}

\* C11: the step that completes a deleteNote whose remote deletion succeeded
\* takes the record with the requested id, and no other record, out of the
\* registry: the records afterwards are the records before without that one,
\* whatever other requests ran while the deletion was in flight.
DeleteRemovesExactlyRequested ==
    [][ \A r \in Reqs :
          (Ends(r, "destroyed") /\ req[r].outcome = "ok")
              => Records(voiceNotes')
                     = {n \in Records(voiceNotes) : ~StrictEq(n.id, req[r].noteId)} ]_vars

\* C12: no two submissions upload under the same public id, whether they are
\* in flight together or one has already become a record, so no two records
\* of the registry share a publicId.
PublicIdsUnique ==
    /\ \A i, j \in 1..Len(voiceNotes) :
          voiceNotes[i].publicId = voiceNotes[j].publicId => i = j
    /\ \A r \in Uploading :
          /\ \A q \in Uploading : req[q].publicId = req[r].publicId => q = r
          /\ \A i \in 1..Len(voiceNotes) : voiceNotes[i].publicId # req[r].publicId

\* ids that have been handed out and are not in the registry: every id that
\* was removed is one of them
Gone == {id \in 1..(noteIdCounter - 1) : id \notin Ids(voiceNotes)}

\* C13: while a record is in the registry its downloaded flag does not go
\* back to false and its downloadCount does not decrease; a record that
\* leaves the registry has an id below the counter, an id below the counter
\* that is not in the registry never enters it, and a markDownloaded or
\* deleteNote that names such an id answers 404 and changes nothing.
RecordLifecycle ==
    [][ /\ \A id \in Ids(voiceNotes) \cap Ids(voiceNotes') :
              /\ NoteOf(voiceNotes, id).downloaded => NoteOf(voiceNotes', id).downloaded
              /\ NoteOf(voiceNotes', id).downloadCount >= NoteOf(voiceNotes, id).downloadCount
        /\ \A id \in Ids(voiceNotes) \ Ids(voiceNotes') : id < noteIdCounter'
        /\ \A id \in Gone : id \notin Ids(voiceNotes')
        /\ \/ /\ res'.status = 404
              /\ voiceNotes' = voiceNotes
              /\ remote' = remote
              /\ req' = req
           \/ \A param \in PathIds :
                 \/ Parsed[param].nan
                 \/ Parsed[param].n \notin Gone
                 \/ \A r \in Reqs : ~(MarkDownloaded(r, param) \/ DeleteNote(r, param)) ]_vars

\* record 1 has been deleted, record 2 has been marked and is still there,
\* and a request has just been answered 404
NotFoundAfterDelete ==
    /\ variant = "stream"
    /\ res.status = 404
    /\ noteIdCounter = 3
    /\ Ids(voiceNotes) = {2}
    /\ voiceNotes[1].downloaded

\* the fields of a record that are written once, when it is created
WriteOnce(note) ==
    [id |-> note.id, cloudinaryUrl |-> note.cloudinaryUrl, publicId |-> note.publicId,
     effect |-> note.effect, timestamp |-> note.timestamp, userAgent |-> note.userAgent,
     fileSize |-> note.fileSize]

\* C14: a markDownloaded step keeps the array's length and order, leaves
\* every record but the one with the requested id as it was, keeps that
\* record's write-once fields, and leaves the counter, the remote store and
\* the requests in flight alone; and no step of any handler changes a
\* write-once field of a record that stays in the registry.
MarkChangesDownloadFieldsOnly ==
    [][ /\ \A id \in Ids(voiceNotes) \cap Ids(voiceNotes') :
              WriteOnce(NoteOf(voiceNotes', id)) = WriteOnce(NoteOf(voiceNotes, id))
        /\ \A param \in PathIds :
              (\E r \in Reqs : MarkDownloaded(r, param))
                  => /\ Len(voiceNotes') = Len(voiceNotes)
                     /\ \A i \in 1..Len(voiceNotes) :
                           /\ WriteOnce(voiceNotes'[i]) = WriteOnce(voiceNotes[i])
                           /\ StrictEq(voiceNotes[i].id, Parsed[param])
                                  \/ voiceNotes'[i] = voiceNotes[i]
                     /\ noteIdCounter' = noteIdCounter
                     /\ remote' = remote
                     /\ req' = req ]_vars

\* the older of two records has just been marked, the newer one has not
MarkedOneOfTwo ==
    /\ res.status = 200
    /\ Len(voiceNotes) = 2
    /\ voiceNotes[1].id = 1
    /\ voiceNotes[1].downloadCount = 1
    /\ voiceNotes[2].downloadCount = 0
    /\ voiceNotes[2].timestamp > voiceNotes[1].timestamp

\* C15: a submission with no file or an empty file is answered 400 and
\* starts no remote upload; the step that completes a submission either
\* answers 200, for an upload the store confirmed, with exactly one record
\* appended, or answers 500 "Upload failed" with the registry as it was, and
\* it answers 500 whenever the store failed or timed out; and every
\* submission whose upload was started is completed.
SubmissionCompletes ==
    /\ [][ /\ \A body \in Bodies :
                 (~body.file \/ body.size = 0)
                     => \A r \in Reqs :
                           (\/ UploadVoiceStream(r, body)
                            \/ \E rnd \in RandomTags : UploadVoiceStaged(r, body, rnd))
                               => res'.status = 400 /\ req' = req
           /\ \A r \in Reqs :
                 Ends(r, "uploaded")
                     => /\ \/ /\ res'.status = 200
                              /\ req[r].outcome = "ok"
                              /\ Len(voiceNotes') = Len(voiceNotes) + 1
                              /\ SubSeq(voiceNotes', 1, Len(voiceNotes)) = voiceNotes
                           \/ /\ res'.status = 500
                              /\ res'.error = "Upload failed"
                              /\ voiceNotes' = voiceNotes
                        /\ req[r].outcome # "ok" => res'.status = 500 ]_vars
    /\ \A r \in Reqs : (req[r].pc = "uploading") ~> (req[r].pc = "idle")

\* what a client and a reader of the registry can see of the server
Observable == <<alive, voiceNotes, noteIdCounter, res>>

\* lines 68-96: what is seen of the server once the upload_stream callback
\* of request r has run from this state
StreamOutcome(r) ==
    IF req[r].outcome # "ok"
    THEN <<alive, voiceNotes, noteIdCounter, Respond(500, "Upload failed")>>
    ELSE IF ThrowsOnUserAgent(req[r].body)
    THEN <<FALSE, voiceNotes, noteIdCounter + 1, NoRes>>
    ELSE LET result == UploadResult(r)
             voiceNote == VoiceNote(result, req[r].body, now)
         IN <<alive, Append(voiceNotes, voiceNote), noteIdCounter + 1,
              [Respond(200, "") EXCEPT !.id = voiceNote.id, !.url = result.secure_url]>>

\* C16: the two variants, which are the same code up to the remote call and
\* share the remote store's answer, are the same in what can be seen of the
\* step that completes an upload: from every state it reaches, the
\* staged-file handler leaves the response, the records, the counter and the
\* process as the streaming callback does for that request, body and answer.
VariantsEquivalent ==
    [][ \A r \in Reqs :
          Ends(r, "uploaded") => Observable' = StreamOutcome(r) ]_vars

\* C17: a listNotes step leaves the stored array (its records, their fields
\* and their order) and the counter exactly as they were.
ListNotesReadOnly ==
    [][ \A r \in Reqs :
          ListNotes(r) => voiceNotes' = voiceNotes /\ noteIdCounter' = noteIdCounter ]_vars

\* C18: in every reachable state, whatever requests are in flight, each
\* record of the registry has downloaded true exactly when its downloadCount
\* is at least 1.
DownloadedIffCounted ==
    \A i \in 1..Len(voiceNotes) :
        voiceNotes[i].downloaded <=> voiceNotes[i].downloadCount >= 1

\* a list is answered with a marked and an unmarked record in it while a
\* deleteNote is waiting for the remote store
ListedWhileDeleting ==
    /\ res.status = 200
    /\ res.count = 2
    /\ \E r \in Reqs : req[r].pc = "destroying"
    /\ \E i, j \in 1..Len(voiceNotes) :
          /\ voiceNotes[i].downloaded /\ voiceNotes[i].downloadCount = 2
          /\ ~voiceNotes[j].downloaded /\ voiceNotes[j].downloadCount = 0

\* a path parameter that is a decimal numeral and nothing else
WellFormed(param) == param # <<>> /\ \A i \in 1..Len(param) : IsDigit(param[i])

\* C19: markDownloaded and deleteNote with a path id that is not a
\* well-formed integer answer 404, mark and remove no record and start no
\* remote deletion.
MalformedIdIsNotFound ==
    [][ \A param \in PathIds :
          WellFormed(param)
              \/ \A r \in Reqs :
                    (MarkDownloaded(r, param) \/ DeleteNote(r, param))
                        => /\ res'.status = 404
                           /\ voiceNotes' = voiceNotes
                           /\ remote' = remote
                           /\ req' = req ]_vars

====
